---- MODULE Spec2Model ----
(***************************************************************************)
(* Model of skyportal/models/localization.py: the Localization table and   *)
(* its child tables (LocalizationTile, LocalizationProperty,               *)
(* LocalizationTag), and the derived views of a Localization (is_3d,       *)
(* table_2d, table, flat_2d, flat, center).                                *)
(*                                                                         *)
(* Spec       : ingestion and the life of the rows of localizations, with  *)
(*              arrays of every shape: create, update, delete, and the     *)
(*              cascades from gcnevents and users.                         *)
(* SpecTables : the same rows with their child tables (tiles, properties,  *)
(*              tags) and the ON DELETE CASCADE foreign keys.              *)
(* SpecMap    : one Localization, drawn from bounded multi-order maps, and *)
(*              the derived views computed on it.                          *)
(***************************************************************************)
EXTENDS Integers, Sequences, FiniteSets

\* ------------------------------------------------------------------ bounds
MaxLocalizations == 2
MaxTileRows == 2
MaxChildRows == 1
MaxUniqLen == 2
MaxDensityLen == 1
MaxDistLen == 1

\* ------------------------------------------------------------ Python None
\* A nullable value is a sequence of length 0 (None) or 1 (the value).
None == << >>
Some(x) == << x >>
IsNone(x) == x = None
Val(x) == x[1]

SeqsUpTo(S, n) == UNION { [1..k -> S] : k \in 0..n }

VARIABLES
    users,          \* ids of the rows of users
    gcnevents,      \* dateobs of the rows of gcnevents
    localizations,  \* id -> row of localizations
    tiles,          \* set of rows of localizationtiles
    properties,     \* set of rows of localizationproperties
    tags,           \* set of rows of localizationtags
    nextId,         \* next value of the id sequence of each table
    lastOp,         \* the request that produced this state
    loc,            \* SpecMap: the Localization the views are computed on
    view            \* SpecMap: the view computed last and its value

dbvars == << users, gcnevents, localizations, tiles, properties, tags, nextId, lastOp >>
vars == << users, gcnevents, localizations, tiles, properties, tags, nextId, lastOp, loc, view >>

\* --------------------------------------------------------------- database
Users == {1, 2}
Dateobs == {1, 2}
Healpix == {4, 5}

\* Arrays a caller can hand to the Localization constructor.
UniqValues == {4}
DensityValues == {-1, 1}
DistValues == {7}
UniqArrays == {None} \cup { Some(s) : s \in SeqsUpTo(UniqValues, MaxUniqLen) \ {<< >>} }
DensityArrays == {None} \cup { Some(s) : s \in SeqsUpTo(DensityValues, MaxDensityLen) \ {<< >>} }
DistArrays == {None} \cup { Some(s) : s \in SeqsUpTo(DistValues, MaxDistLen) \ {<< >>} }

\* Localization(sent_by_id, dateobs, uniq, probdensity, distmu, distsigma, distnorm):
\* the declarative constructor stores its keyword arguments as given.
Localization(u, d, uq, pd, mu, sg, nm) ==
    [ sent_by_id |-> u, dateobs |-> d, uniq |-> uq, probdensity |-> pd,
      distmu |-> mu, distsigma |-> sg, distnorm |-> nm ]

\* nullable=False columns of localizations
LocalizationNotNull(row) == ~IsNone(row.uniq) /\ ~IsNone(row.probdensity)

\* AccessibleIfUserMatches('sent_by'): the row is accessible to the user it
\* names as sent_by, and to nobody else.
AccessibleIfUserMatchesAnyone(actor, row) == TRUE
AccessibleIfUserMatches(actor, row) == actor = row.sent_by_id

\* ForeignKey('localizations.id', ondelete="CASCADE") on the three child tables
CascadeKeepAll(rows, locIds) == rows
CascadeLocalizationId(rows, locIds) == { r \in rows : r.localization_id \in locIds }

\* ForeignKey('users.id', ondelete='CASCADE') on properties and tags
CascadeSentBy(rows, userIds) == { r \in rows : r.sent_by_id \in userIds }

\* The rows left in the database once the localizations `gone` are deleted.
RemoveLocalizations(gone) ==
    LET keep == DOMAIN localizations \ gone IN
    /\ localizations' = [ l \in keep |-> localizations[l] ]
    /\ tiles' = CascadeLocalizationId(tiles, keep)

Init ==
    /\ users = Users
    /\ gcnevents = Dateobs
    /\ localizations = << >>
    /\ tiles = {}
    /\ properties = {}
    /\ tags = {}
    /\ nextId = [ localizations |-> 1, properties |-> 1, tags |-> 1 ]
    /\ lastOp = [ op |-> "init", actor |-> 0, target |-> 0 ]
    /\ loc = None
    /\ view = None

CreateLocalization(u, d, uq, pd, mu, sg, nm) ==
    LET row == Localization(u, d, uq, pd, mu, sg, nm)
        id == nextId.localizations IN
    /\ id <= MaxLocalizations
    /\ u \in users
    /\ d \in gcnevents
    /\ LocalizationNotNull(row)
    /\ localizations' = [ l \in DOMAIN localizations \cup {id} |->
                            IF l = id THEN row ELSE localizations[l] ]
    /\ nextId' = [ nextId EXCEPT !.localizations = id + 1 ]
    /\ lastOp' = [ op |-> "create", actor |-> u, target |-> id ]
    /\ UNCHANGED << users, gcnevents, tiles, properties, tags, loc, view >>

UpdateLocalization(actor, l, uq, pd, mu, sg, nm) ==
    /\ actor \in users
    /\ l \in DOMAIN localizations
    /\ AccessibleIfUserMatches(actor, localizations[l])
    /\ LET old == localizations[l]
           row == Localization(old.sent_by_id, old.dateobs, uq, pd, mu, sg, nm) IN
       /\ LocalizationNotNull(row)
       /\ row # old
       /\ localizations' = [ localizations EXCEPT ![l] = row ]
    /\ lastOp' = [ op |-> "update", actor |-> actor, target |-> l ]
    /\ UNCHANGED << users, gcnevents, tiles, properties, tags, nextId, loc, view >>

DeleteLocalization(actor, l) ==
    /\ actor \in users
    /\ l \in DOMAIN localizations
    /\ AccessibleIfUserMatches(actor, localizations[l])
    /\ RemoveLocalizations({l})
    /\ properties' = CascadeLocalizationId(properties, DOMAIN localizations \ {l})
    /\ tags' = CascadeLocalizationId(tags, DOMAIN localizations \ {l})
    /\ lastOp' = [ op |-> "delete", actor |-> actor, target |-> l ]
    /\ UNCHANGED << users, gcnevents, nextId, loc, view >>

DeleteGcnEvent(d) ==
    LET gone == { l \in DOMAIN localizations : localizations[l].dateobs = d } IN
    /\ d \in gcnevents
    /\ gcnevents' = gcnevents \ {d}
    /\ RemoveLocalizations(gone)
    /\ properties' = CascadeLocalizationId(properties, DOMAIN localizations \ gone)
    /\ tags' = CascadeLocalizationId(tags, DOMAIN localizations \ gone)
    /\ lastOp' = [ op |-> "delete_gcnevent", actor |-> 0, target |-> d ]
    /\ UNCHANGED << users, nextId, loc, view >>

DeleteUser(u) ==
    LET gone == { l \in DOMAIN localizations : localizations[l].sent_by_id = u } IN
    /\ u \in users
    /\ users' = users \ {u}
    /\ RemoveLocalizations(gone)
    /\ properties' = CascadeSentBy(
            CascadeLocalizationId(properties, DOMAIN localizations \ gone), users \ {u})
    /\ tags' = CascadeSentBy(
            CascadeLocalizationId(tags, DOMAIN localizations \ gone), users \ {u})
    /\ lastOp' = [ op |-> "delete_user", actor |-> 0, target |-> u ]
    /\ UNCHANGED << gcnevents, nextId, loc, view >>

\* LocalizationTile(id, localization_id, healpix, probdensity).  The only
\* unique index of the table is on (id, healpix).
LocalizationTileUnique(row) ==
    \A t \in tiles : ~(t.id = row.id /\ t.healpix = row.healpix)

InsertLocalizationTile(id, l, h, pd) ==
    LET row == [ id |-> id, localization_id |-> l, healpix |-> h, probdensity |-> pd ] IN
    /\ Cardinality(tiles) < MaxTileRows
    /\ l \in DOMAIN localizations
    /\ LocalizationTileUnique(row)
    /\ tiles' = tiles \cup {row}
    /\ lastOp' = [ op |-> "insert_tile", actor |-> 0, target |-> l ]
    /\ UNCHANGED << users, gcnevents, localizations, properties, tags, nextId, loc, view >>

CreateLocalizationProperty(u, l) ==
    LET id == nextId.properties IN
    /\ id <= MaxChildRows
    /\ u \in users
    /\ l \in DOMAIN localizations
    /\ properties' = properties \cup
            { [ id |-> id, sent_by_id |-> u, localization_id |-> l ] }
    /\ nextId' = [ nextId EXCEPT !.properties = id + 1 ]
    /\ lastOp' = [ op |-> "create_property", actor |-> u, target |-> l ]
    /\ UNCHANGED << users, gcnevents, localizations, tiles, tags, loc, view >>

CreateLocalizationTag(u, l) ==
    LET id == nextId.tags IN
    /\ id <= MaxChildRows
    /\ u \in users
    /\ l \in DOMAIN localizations
    /\ tags' = tags \cup { [ id |-> id, sent_by_id |-> u, localization_id |-> l ] }
    /\ nextId' = [ nextId EXCEPT !.tags = id + 1 ]
    /\ lastOp' = [ op |-> "create_tag", actor |-> u, target |-> l ]
    /\ UNCHANGED << users, gcnevents, localizations, tiles, properties, loc, view >>

\* Ingestion and the life of a Localization row: arrays of every shape.
Next ==
    \/ \E u \in Users, d \in Dateobs, uq \in UniqArrays, pd \in DensityArrays,
          mu \in DistArrays, sg \in DistArrays, nm \in DistArrays :
            CreateLocalization(u, d, uq, pd, mu, sg, nm)
    \/ \E u \in Users, l \in 1..MaxLocalizations, uq \in UniqArrays, pd \in DensityArrays,
          mu \in DistArrays, sg \in DistArrays, nm \in DistArrays :
            UpdateLocalization(u, l, uq, pd, mu, sg, nm)
    \/ \E u \in Users, l \in 1..MaxLocalizations : DeleteLocalization(u, l)
    \/ \E d \in Dateobs : DeleteGcnEvent(d)
    \/ \E u \in Users : DeleteUser(u)

Spec == Init /\ [][Next]_vars

\* The child tables: every Localization carries the same one-tile 2D map.
NextTables ==
    \/ \E u \in Users, d \in Dateobs :
            CreateLocalization(u, d, Some(<< 4 >>), Some(<< 1 >>), None, None, None)
    \/ \E u \in Users, l \in 1..MaxLocalizations : DeleteLocalization(u, l)
    \/ \E d \in Dateobs : DeleteGcnEvent(d)
    \/ \E u \in Users : DeleteUser(u)
    \/ \E id \in 1..MaxTileRows, l \in 1..MaxLocalizations, h \in Healpix :
            InsertLocalizationTile(id, l, h, 1)
    \/ \E u \in Users, l \in 1..MaxLocalizations : CreateLocalizationProperty(u, l)
    \/ \E u \in Users, l \in 1..MaxLocalizations : CreateLocalizationTag(u, l)

SpecTables == Init /\ [][NextTables]_vars

\* ------------------------------------------------------- HEALPix indexing
\* The source works at nside = 512 (order 9, 3145728 cells); the model works
\* at nside = 2^FlatOrder.
FlatOrder == 1
MaxTiles == 2
nside == 2 ^ FlatOrder

\* healpy.nside2order: log2 of a power of two
nside2order_OffByOne(n) == (CHOOSE o \in 0..29 : 2 ^ o = n) + 1
nside2order(n) == CHOOSE o \in 0..29 : 2 ^ o = n
\* healpy.nside2npix / order2npix: twelve base faces of nside x nside cells
nside2npix(n) == 12 * n * n

\* UNIQ = ipix + 4^(order + 1)
nest2uniq(order, ipix) == ipix + 4 ^ (order + 1)
uniq2order(u) == CHOOSE o \in 0..13 : 4 ^ (o + 1) <= u /\ u < 4 ^ (o + 2)
uniq2nest(u) == u - 4 ^ (uniq2order(u) + 1)

\* NESTED -> RING index at resolution n (HEALPix nest2xyf, xyf2ring).
RECURSIVE EvenBits(_)
EvenBits(v) == IF v = 0 THEN 0 ELSE (v % 2) + 2 * EvenBits(v \div 4)
jrll == << 2, 2, 2, 2, 3, 3, 3, 3, 4, 4, 4, 4 >>
jpll == << 1, 3, 5, 7, 0, 2, 4, 6, 1, 3, 5, 7 >>
nest2ring(n, ipnest) ==
    LET face == ipnest \div (n * n)
        ipf == ipnest % (n * n)
        ix == EvenBits(ipf)
        iy == EvenBits(ipf \div 2)
        nl4 == 4 * n
        jr == jrll[face + 1] * n - ix - iy - 1
        north == jr < n
        south == jr > 3 * n
        nr == IF north THEN jr ELSE IF south THEN nl4 - jr ELSE n
        nbefore == IF north THEN 2 * nr * (nr - 1)
                   ELSE IF south THEN nside2npix(n) - 2 * (nr + 1) * nr
                   ELSE 2 * n * (n - 1) + (jr - n) * nl4
        kshift == IF north \/ south THEN 0 ELSE (jr - n) % 2
        jp0 == (jpll[face + 1] * nr + ix - iy + 1 + kshift) \div 2
        jp == IF jp0 > nl4 THEN jp0 - nl4 ELSE IF jp0 < 1 THEN jp0 + nl4 ELSE jp0
    IN nbefore + jp - 1

\* ring index -> nested index at the working resolution
Ring2Nest ==
    [ r \in 0..(nside2npix(nside) - 1) |->
        CHOOSE i \in 0..(nside2npix(nside) - 1) : nest2ring(nside, i) = r ]

\* ---------------------------------------------------------------- floats
\* A float is n/d * pi^p, in lowest terms; zero is 0/1 * pi^0.
RECURSIVE GCD(_, _)
GCD(a, b) == IF b = 0 THEN a ELSE GCD(b, a % b)
Abs(x) == IF x < 0 THEN -x ELSE x
Real(n, d, p) ==
    IF n = 0 THEN [ n |-> 0, d |-> 1, p |-> 0 ]
    ELSE LET g == GCD(Abs(n), d) IN [ n |-> n \div g, d |-> d \div g, p |-> p ]
Float(i) == Real(i, 1, 0)
RMul(a, b) == Real(a.n * b.n, a.d * b.d, a.p + b.p)
RAdd(a, b) ==
    IF a.n = 0 THEN b ELSE IF b.n = 0 THEN a
    ELSE Real(a.n * b.d + b.n * a.d, a.d * b.d, a.p)
RLess(a, b) == a.n * b.d < b.n * a.d
RECURSIVE RSum(_, _)
RSum(f, S) ==
    IF S = {} THEN Float(0)
    ELSE LET i == CHOOSE x \in S : TRUE IN RAdd(f[i], RSum(f, S \ {i}))

\* ------------------------------------------------------------ the views
\* astropy Table(columns, names): the columns must be arrays of one length.
Table(cols, names) ==
    IF \E k \in DOMAIN cols : IsNone(cols[k])
    THEN [ error |-> "TypeError", names |-> << >>, cols |-> << >> ]
    ELSE IF \E j, k \in DOMAIN cols : Len(Val(cols[j])) # Len(Val(cols[k]))
    THEN [ error |-> "ValueError", names |-> << >>, cols |-> << >> ]
    ELSE [ error |-> "", names |-> names, cols |-> [ k \in DOMAIN cols |-> Val(cols[k]) ] ]
Col(t, name) == t.cols[CHOOSE k \in DOMAIN t.names : t.names[k] = name]

\* np.asarray(a, dtype=np.int64) of a BigInteger array
asarray_int64(a) ==
    IF IsNone(a) THEN None ELSE Some([ i \in DOMAIN Val(a) |-> Val(a)[i] ])

is_3d_DistmuOnly(l) == ~IsNone(l.distmu)
is_3d(l) == ~IsNone(l.distmu) /\ ~IsNone(l.distsigma) /\ ~IsNone(l.distnorm)

Reversed(a) == [ i \in DOMAIN a |-> a[Len(a) + 1 - i] ]
table_2d_Reversed(l) ==
    Table(<< Some(Reversed(Val(asarray_int64(l.uniq)))), l.probdensity >>,
          << "UNIQ", "PROBDENSITY" >>)
table_2d(l) ==
    Table(<< asarray_int64(l.uniq), l.probdensity >>, << "UNIQ", "PROBDENSITY" >>)

table(l) ==
    IF is_3d(l)
    THEN Table(<< asarray_int64(l.uniq), l.probdensity, l.distmu, l.distsigma, l.distnorm >>,
               << "UNIQ", "PROBDENSITY", "DISTMU", "DISTSIGMA", "DISTNORM" >>)
    ELSE table_2d(l)

\* ligo.skymap.moc.rasterize: the value of column k in nested cell c of the
\* fixed-order map.  Tiles finer than `order` are averaged onto their
\* ancestor cell and painted last; the others are painted in table order over
\* a zeroed array, each over every cell it contains.
moc_rasterize(t, order, k, c) ==
    LET uq == t.cols[1]
        fine == { i \in DOMAIN uq :
                    /\ uniq2order(uq[i]) > order
                    /\ uniq2nest(uq[i]) \div 4 ^ (uniq2order(uq[i]) - order) = c }
        kept == { i \in DOMAIN uq :
                    /\ uniq2order(uq[i]) <= order
                    /\ c \div 4 ^ (order - uniq2order(uq[i])) = uniq2nest(uq[i]) }
        weighted == [ i \in DOMAIN uq |->
                        IF i \in fine
                        THEN RMul(t.cols[k][i], Real(1, 4 ^ (uniq2order(uq[i]) - order), 0))
                        ELSE Float(0) ]
    IN  IF fine # {} THEN RSum(weighted, fine)
        ELSE IF kept # {} THEN t.cols[k][CHOOSE i \in kept : \A j \in kept : j <= i]
        ELSE Float(0)

\* ligo.skymap.bayestar.rasterize: moc.rasterize, then PROBDENSITY is
\* multiplied by the area of a cell, 4 pi / npix, and renamed PROB.
PixelArea(order) == Real(4, nside2npix(2 ^ order), 1)
RasterNames(names) ==
    [ k \in 1..(Len(names) - 1) |->
        IF names[k + 1] = "PROBDENSITY" THEN "PROB" ELSE names[k + 1] ]
rasterize(t, order) ==
    IF t.error # "" THEN t
    ELSE [ error |-> "",
           names |-> RasterNames(t.names),
           cols |-> [ k \in 1..(Len(t.names) - 1) |->
                        [ c \in 1..nside2npix(2 ^ order) |->
                            IF t.names[k + 1] = "PROBDENSITY"
                            THEN RMul(moc_rasterize(t, order, k + 1, c - 1), PixelArea(order))
                            ELSE moc_rasterize(t, order, k + 1, c - 1) ] ] ]

\* healpy.reorder(m, 'NESTED', 'RING') of one map, whose resolution is read
\* off its length
npix2nside(npix) == CHOOSE n \in 1..64 : nside2npix(n) = npix
ring2nest(n, r) ==
    IF n = nside THEN Ring2Nest[r]
    ELSE CHOOSE i \in 0..(nside2npix(n) - 1) : nest2ring(n, i) = r
reorder(m) ==
    LET n == npix2nside(Len(m)) IN [ r \in DOMAIN m |-> m[ring2nest(n, r - 1) + 1] ]

flat_2d_Nested(l) ==
    LET order == nside2order(nside)
        t == rasterize(table_2d(l), order)
    IN  IF t.error # "" THEN [ error |-> t.error, value |-> << >> ]
        ELSE [ error |-> "", value |-> Col(t, "PROB") ]
flat_2d(l) ==
    LET order == nside2order(nside)
        t == rasterize(table_2d(l), order)
    IN  IF t.error # "" THEN [ error |-> t.error, value |-> << >> ]
        ELSE [ error |-> "", value |-> reorder(Col(t, "PROB")) ]

flat_FirstOnly(l) ==
    IF is_3d(l)
    THEN LET order == nside2order(nside)
             t == rasterize(table(l), order)
             result == << Col(t, "PROB"), Col(t, "DISTMU"), Col(t, "DISTSIGMA"),
                          Col(t, "DISTNORM") >>
         IN  [ error |-> "",
               value |-> [ k \in DOMAIN result |->
                            IF k = 1 THEN reorder(result[k]) ELSE result[k] ] ]
    ELSE LET f == flat_2d(l) IN [ error |-> f.error, value |-> << f.value >> ]
flat(l) ==
    IF is_3d(l)
    THEN LET order == nside2order(nside)
             t == rasterize(table(l), order)
         IN  IF t.error # "" THEN [ error |-> t.error, value |-> << >> ]
             ELSE LET result == << Col(t, "PROB"), Col(t, "DISTMU"), Col(t, "DISTSIGMA"),
                                   Col(t, "DISTNORM") >>
                  IN  [ error |-> "", value |-> [ k \in DOMAIN result |-> reorder(result[k]) ] ]
    ELSE LET f == flat_2d(l) IN [ error |-> f.error, value |-> << f.value >> ]

\* ligo.skymap.postprocess.posterior_max: the centre of the first cell of
\* greatest probability of a RING map.
posterior_max(prob) ==
    [ nside |-> nside,
      ipix |-> (CHOOSE i \in DOMAIN prob :
                    /\ \A j \in DOMAIN prob : ~RLess(prob[i], prob[j])
                    /\ \A j \in DOMAIN prob : j < i => RLess(prob[j], prob[i])) - 1 ]

\* float(dustmaps.sfd.SFDQuery()(coord)): what the lookup does is drawn by
\* the caller, `sfd` names the step that raises ("" for none) and the value.
SFDStages == { "SFDQuery()", "query(coord)", "float(ebv)" }
EbvValues == { 0, 1 }
SFDOutcomes ==
    { [ raises |-> s, value |-> 0 ] : s \in SFDStages } \cup
    { [ raises |-> "", value |-> e ] : e \in EbvValues }
SFDQuery(coord, sfd) ==
    IF sfd.raises # "" THEN [ raised |-> TRUE, value |-> Float(0) ]
    ELSE [ raised |-> FALSE, value |-> Float(sfd.value) ]

CenterInfo(coord, ebv) ==
    [ error |-> "",
      ra |-> << "ra.deg", coord >>, dec |-> << "dec.deg", coord >>,
      gal_lat |-> << "galactic.b.deg", coord >>, gal_lon |-> << "galactic.l.deg", coord >>,
      ebv |-> ebv ]
center_NoExcept(l, sfd) ==
    LET coord == posterior_max(flat_2d(l).value)
        q == SFDQuery(coord, sfd)
    IN  IF q.raised THEN [ error |-> sfd.raises ] ELSE CenterInfo(coord, Some(q.value))
center(l, sfd) ==
    LET prob == flat_2d(l)
    IN  IF prob.error # "" THEN [ error |-> prob.error ]
        ELSE LET coord == posterior_max(prob.value)
                 q == SFDQuery(coord, sfd)
             IN  CenterInfo(coord, IF q.raised THEN None ELSE Some(q.value))

\* ------------------------------------------------- the maps of SpecMap
\* Tiles: a base face, a cell of the working order inside it, a cell of
\* the working order in another face, a cell one order finer inside that
\* one, and two sibling cells one order finer in a third face.
TileIds ==
    { nest2uniq(0, 0),
      nest2uniq(FlatOrder, 0),
      nest2uniq(FlatOrder, 4 ^ FlatOrder + 1),
      nest2uniq(FlatOrder + 1, 4 * (4 ^ FlatOrder + 1)),
      nest2uniq(FlatOrder + 1, 2 * 4 ^ (FlatOrder + 1)),
      nest2uniq(FlatOrder + 1, 2 * 4 ^ (FlatOrder + 1) + 1) }
DensityPool == { 1, 2 }
DistPool == { << 100, 10, 1 >>, << 200, 20, 2 >> }
DistColumns == { "distmu", "distsigma", "distnorm" }
TileEntries == TileIds \X DensityPool \X DistPool
\* the twelve base faces at one density: a map of the whole sphere
AllSky(d) == [ i \in 1..12 |-> << nest2uniq(0, i - 1), d, << 100, 10, 1 >> >> ]
MapRows == SeqsUpTo(TileEntries, MaxTiles) \cup { AllSky(d) : d \in DensityPool }

FromRows(rows, has) ==
    Localization(1, 1,
        Some([ i \in DOMAIN rows |-> rows[i][1] ]),
        Some([ i \in DOMAIN rows |-> Float(rows[i][2]) ]),
        IF "distmu" \in has THEN Some([ i \in DOMAIN rows |-> Float(rows[i][3][1]) ]) ELSE None,
        IF "distsigma" \in has THEN Some([ i \in DOMAIN rows |-> Float(rows[i][3][2]) ]) ELSE None,
        IF "distnorm" \in has THEN Some([ i \in DOMAIN rows |-> Float(rows[i][3][3]) ]) ELSE None)

\* A view is a property of the object: it is computed once on the map drawn.
InitMap ==
    /\ users = Users
    /\ gcnevents = Dateobs
    /\ localizations = << >>
    /\ tiles = {}
    /\ properties = {}
    /\ tags = {}
    /\ nextId = [ localizations |-> 1, properties |-> 1, tags |-> 1 ]
    /\ lastOp = [ op |-> "init", actor |-> 0, target |-> 0 ]
    /\ loc \in { FromRows(rows, has) : rows \in MapRows, has \in SUBSET DistColumns }
    /\ view = [ op |-> "", sfd |-> None, value |-> None ]

GetTable2d ==
    /\ view.op = ""
    /\ view' = [ op |-> "table_2d", sfd |-> None, value |-> table_2d(loc) ]
    /\ UNCHANGED << dbvars, loc >>

GetTable ==
    /\ view.op = ""
    /\ view' = [ op |-> "table", sfd |-> None, value |-> table(loc) ]
    /\ UNCHANGED << dbvars, loc >>

GetFlat2d ==
    /\ view.op = ""
    /\ view' = [ op |-> "flat_2d", sfd |-> None, value |-> flat_2d(loc) ]
    /\ UNCHANGED << dbvars, loc >>

GetFlat ==
    /\ view.op = ""
    /\ view' = [ op |-> "flat", sfd |-> None, value |-> flat(loc) ]
    /\ UNCHANGED << dbvars, loc >>

GetCenter(sfd) ==
    /\ view.op = ""
    /\ view' = [ op |-> "center", sfd |-> Some(sfd), value |-> center(loc, sfd) ]
    /\ UNCHANGED << dbvars, loc >>

NextMap ==
    \/ GetTable2d
    \/ GetTable
    \/ GetFlat2d
    \/ GetFlat
    \/ \E sfd \in SFDOutcomes : GetCenter(sfd)

SpecMap == InitMap /\ [][NextMap]_vars

\* ----------------------------------------------------------------- claims

\* The arrays of a row are those of a well-formed map: equal lengths, no tile
\* identifier twice, no negative density.
NoDuplicates(a) == \A i, j \in DOMAIN a : a[i] = a[j] => i = j
WellFormed(row) ==
    LET uq == Val(row.uniq)
        pd == Val(row.probdensity) IN
    /\ Len(uq) = Len(pd)
    /\ \A c \in { row.distmu, row.distsigma, row.distnorm } :
            ~IsNone(c) => Len(Val(c)) = Len(uq)
    /\ NoDuplicates(uq)
    /\ \A i \in DOMAIN pd : pd[i] >= 0

\* C1: construction from arrays that differ in length, repeat a tile
\* identifier or hold a negative density fails, so that no Localization row
\* with such arrays exists.
C1_MalformedRejected ==
    \A l \in DOMAIN localizations : WellFormed(localizations[l])

\* C3: no two stored tiles have the same pair (localization_id, healpix).
C3_TilePairUnique ==
    \A t1, t2 \in tiles :
        (t1.localization_id = t2.localization_id /\ t1.healpix = t2.healpix) => t1 = t2

ChildRows(rows, l) == { r \in rows : r.localization_id = l }
NoOrphans(locIds, tl, pr, tg) ==
    \A r \in tl \cup pr \cup tg : r.localization_id \in locIds

\* The tiles of the map, by their index in the stored arrays.
Tiles == DOMAIN Val(loc.uniq)
TileOrder(i) == uniq2order(Val(loc.uniq)[i])
TileNest(i) == uniq2nest(Val(loc.uniq)[i])
Overlap(i, j) ==
    IF TileOrder(i) <= TileOrder(j)
    THEN TileNest(j) \div 4 ^ (TileOrder(j) - TileOrder(i)) = TileNest(i)
    ELSE TileNest(i) \div 4 ^ (TileOrder(i) - TileOrder(j)) = TileNest(j)
\* the tiles no coarser than the working order that overlap no other tile
PlainTiles ==
    { i \in Tiles : TileOrder(i) <= FlatOrder /\ \A j \in Tiles \ {i} : ~Overlap(i, j) }
\* the nested cells of the working order inside tile i
CellsOf(i) ==
    LET k == 4 ^ (FlatOrder - TileOrder(i)) IN (TileNest(i) * k)..(TileNest(i) * k + k - 1)
RingIndex(c) == nest2ring(nside, c) + 1
AllPresent == ~IsNone(loc.distmu) /\ ~IsNone(loc.distsigma) /\ ~IsNone(loc.distnorm)

\* C2: center returns whatever the extinction lookup does: with a lookup that
\* raises, ra, dec, gal_lat and gal_lon are those of a lookup that succeeds
\* and ebv is None; with a lookup that succeeds, ebv is the float it returned.
C2_CenterSurvivesLookup ==
    view.op = "center" =>
        LET sfd == Val(view.sfd)
            v == view.value
            good == center(loc, [ raises |-> "", value |-> 0 ])
            coord == posterior_max(flat_2d(loc).value)
        IN  /\ v.error = ""
            /\ v.ra = << "ra.deg", coord >> /\ v.ra = good.ra
            /\ v.dec = << "dec.deg", coord >> /\ v.dec = good.dec
            /\ v.gal_lat = good.gal_lat
            /\ v.gal_lon = good.gal_lon
            /\ sfd.raises # "" => v.ebv = None
            /\ sfd.raises = "" => v.ebv = Some(Float(sfd.value))

\* center has been computed on a map with tiles while float() of the lookup raised
C2_Witness ==
    /\ view.op = "center"
    /\ Val(view.sfd).raises = "float(ebv)"
    /\ Tiles # {}
    /\ view.value.ebv = None

\* C5: is_3d holds exactly when distmu, distsigma and distnorm are all
\* present; without one of them table has the two columns UNIQ and
\* PROBDENSITY and flat is the probability raster alone.
C5_Is3dIffAllDistances ==
    /\ is_3d(loc) <=> AllPresent
    /\ (view.op = "table" /\ ~AllPresent) =>
          /\ view.value.error = ""
          /\ view.value.names = << "UNIQ", "PROBDENSITY" >>
          /\ Len(view.value.cols) = 2
    /\ (view.op = "flat" /\ ~AllPresent) =>
          /\ view.value.error = ""
          /\ Len(view.value.value) = 1
          /\ view.value.value[1] = flat_2d(loc).value
    /\ (view.op = "table" /\ AllPresent) => Len(view.value.cols) = 5
    /\ (view.op = "flat" /\ AllPresent) => Len(view.value.value) = 4

\* table has been read on a map that has distmu and lacks distnorm
C5_Witness ==
    /\ view.op = "table"
    /\ Tiles # {}
    /\ ~IsNone(loc.distmu) /\ IsNone(loc.distnorm)

FlatArrays ==
    IF view.op = "flat_2d" THEN << view.value.value >>
    ELSE IF view.op = "flat" THEN view.value.value
    ELSE << >>

\* C6 as stated: flat_2d, and every array of flat, has 4^O elements, O the
\* order of nside.
C6_LengthFourPowOrder ==
    \A k \in DOMAIN FlatArrays : Len(FlatArrays[k]) = 4 ^ nside2order(nside)

\* C6 amended: flat_2d, and every array of flat, has 12 * 4^O elements, O the
\* order of nside.
C6_LengthTwelveFourPowOrder ==
    /\ view.op \in { "flat_2d", "flat" } => view.value.error = "" /\ FlatArrays # << >>
    /\ \A k \in DOMAIN FlatArrays : Len(FlatArrays[k]) = 12 * 4 ^ FlatOrder

\* flat has been computed on a 3D map that has a tile finer than the working order
C6_Witness ==
    /\ view.op = "flat"
    /\ Len(view.value.value) = 4
    /\ \E i \in Tiles : TileOrder(i) > FlatOrder

WholeSphere == { Val(loc.uniq)[i] : i \in Tiles } = { nest2uniq(0, f) : f \in 0..11 }

C8_TableIsStoredArrays ==
    (/\ view.op \in { "table", "table_2d" }
     /\ NoDuplicates(Val(loc.uniq))
     /\ \A i \in Tiles : Val(loc.probdensity)[i].n >= 0) =>
        LET t == view.value IN
        /\ t.error = ""
        /\ t.names[1] = "UNIQ" /\ t.cols[1] = Val(loc.uniq)
        /\ t.names[2] = "PROBDENSITY" /\ t.cols[2] = Val(loc.probdensity)
        /\ \A k \in DOMAIN t.cols : Len(t.cols[k]) = Len(Val(loc.uniq))
        /\ (view.op = "table" /\ AllPresent) =>
              /\ t.names = << "UNIQ", "PROBDENSITY", "DISTMU", "DISTSIGMA", "DISTNORM" >>
              /\ t.cols[3] = Val(loc.distmu)
              /\ t.cols[4] = Val(loc.distsigma)
              /\ t.cols[5] = Val(loc.distnorm)
        /\ ~(view.op = "table" /\ AllPresent) => Len(t.cols) = 2

\* table has been read on a 2D map of two different tiles
C8_Witness ==
    /\ view.op = "table"
    /\ ~AllPresent
    /\ Len(Val(loc.uniq)) = 2
    /\ Val(loc.uniq)[1] # Val(loc.uniq)[2]
    /\ Val(loc.probdensity)[1] # Val(loc.probdensity)[2]

C10_NoOrphansOthersUnchanged ==
    [][ /\ NoOrphans(DOMAIN localizations', tiles', properties', tags')
        /\ DOMAIN localizations' # DOMAIN localizations =>
              \A l \in DOMAIN localizations' :
                  /\ ChildRows(tiles', l) = ChildRows(tiles, l)
                  /\ ChildRows(properties', l) = ChildRows(properties, l)
                  /\ ChildRows(tags', l) = ChildRows(tags, l) ]_vars

\* C10 amended: after a step that deletes Localization rows no child row
\* references a deleted id; of the child rows of every other Localization the
\* tiles are unchanged, and the properties and tags are unchanged except
\* those sent by a user deleted in the same step.
C10_NoOrphansOthersKept ==
    [][ /\ NoOrphans(DOMAIN localizations', tiles', properties', tags')
        /\ DOMAIN localizations' # DOMAIN localizations =>
              \A l \in DOMAIN localizations' :
                  /\ ChildRows(tiles', l) = ChildRows(tiles, l)
                  /\ ChildRows(properties', l) =
                        { r \in ChildRows(properties, l) : r.sent_by_id \in users' }
                  /\ ChildRows(tags', l) =
                        { r \in ChildRows(tags, l) : r.sent_by_id \in users' } ]_vars

\* A Localization with a tag has been deleted while another one keeps a tile.
C10_Witness ==
    /\ lastOp.op \in { "delete", "delete_gcnevent", "delete_user" }
    /\ Cardinality(DOMAIN localizations) < nextId.localizations - 1
    /\ nextId.tags > 1 /\ tags = {}
    /\ tiles # {}

====
